---- MODULE Spec2Model ----
(***************************************************************************)
(* A model of generator::SvgWriter (src/src/SvgWriter.cpp): the camera     *)
(* state, the accumulator of projected primitives, the submission calls    *)
(* and str(), which sorts the accumulator by depth and serialises it.      *)
(*                                                                         *)
(* Numbers.  The code computes in double.  The model computes in exact     *)
(* rational arithmetic: a number is a pair <<n, d>> with d > 0 and         *)
(* gcd(n, d) = 1.  Inputs are chosen so that no division by zero occurs    *)
(* (no submitted point lies in the eye plane of a perspective camera), so  *)
(* every value is finite; square roots are taken to three decimals.        *)
(***************************************************************************)
EXTENDS Integers, Sequences, FiniteSets, TLC

VARIABLES size_, viewMatrix_, projMatrix_, viewProjMatrix_,
          viewportOrigin_, viewportSize_, cullface_, elems_,
          last

vars == <<size_, viewMatrix_, projMatrix_, viewProjMatrix_,
          viewportOrigin_, viewportSize_, cullface_, elems_, last>>

camera == <<size_, viewMatrix_, projMatrix_, viewProjMatrix_,
            viewportOrigin_, viewportSize_, cullface_>>

(***************************************************************************)
(* Rational arithmetic (the model of double).                              *)
(***************************************************************************)
Abs(i) == IF i < 0 THEN -i ELSE i

RECURSIVE Gcd(_, _)
Gcd(a, b) == IF b = 0 THEN a ELSE Gcd(b, a % b)

\* the rational n/d in lowest terms, d # 0
Q(n, d) ==
    IF d = 1 THEN <<n, 1>>
    ELSE IF d = 0 THEN <<n \div d, 1>>     \* no value: the evaluation stops
    ELSE LET g == Gcd(Abs(n), Abs(d))
             s == IF d < 0 THEN -1 ELSE 1
         IN  <<(s * n) \div g, (s * d) \div g>>

I(i) == <<i, 1>>

Zero == <<0, 1>>

Add(a, b) ==
    IF a[1] = 0 THEN b ELSE IF b[1] = 0 THEN a
    ELSE Q(a[1] * b[2] + b[1] * a[2], a[2] * b[2])
Sub(a, b) ==
    IF b[1] = 0 THEN a ELSE Q(a[1] * b[2] - b[1] * a[2], a[2] * b[2])
Mul(a, b) ==
    IF a[1] = 0 \/ b[1] = 0 THEN Zero ELSE Q(a[1] * b[1], a[2] * b[2])
Div(a, b) ==
    IF a[1] = 0 /\ b[1] # 0 THEN Zero ELSE Q(a[1] * b[2], a[2] * b[1])
Lt(a, b)  == a[1] * b[2] < b[1] * a[2]
Gt(a, b)  == Lt(b, a)

\* floor of a rational
Floor(a) == a[1] \div a[2]

RECURSIVE IsqrtIn(_, _, _)
IsqrtIn(n, lo, hi) ==
    IF lo = hi THEN lo
    ELSE LET mid == (lo + hi + 1) \div 2
         IN  IF mid * mid <= n THEN IsqrtIn(n, mid, hi) ELSE IsqrtIn(n, lo, mid - 1)

\* the largest r with r * r <= n, for 0 <= n < 2^24
Isqrt(n) == IsqrtIn(n, 0, 4096)

\* a / b rounded to the nearest integer, ties to even (a >= 0, b > 0)
RoundDiv(a, b) ==
    LET q == a \div b
        r == a % b
    IN  IF 2 * r > b \/ (2 * r = b /\ q % 2 = 1) THEN q + 1 ELSE q

\* |a| in thousandths, rounded, for |a| <= 1
Milli(a) == RoundDiv(Abs(a[1]) * 1000, a[2])

(***************************************************************************)
(* gml: vectors are tuples of numbers, a matrix is a tuple of four rows.   *)
(***************************************************************************)
Vec3(x, y, z) == <<I(x), I(y), I(z)>>

VSub(a, b) == [i \in 1..3 |-> Sub(a[i], b[i])]

Dot3(a, b) == Add(Add(Mul(a[1], b[1]), Mul(a[2], b[2])), Mul(a[3], b[3]))

Cross(a, b) ==
    << Sub(Mul(a[2], b[3]), Mul(a[3], b[2])),
       Sub(Mul(a[3], b[1]), Mul(a[1], b[3])),
       Sub(Mul(a[1], b[2]), Mul(a[2], b[1])) >>

AbsQ(a) == <<Abs(a[1]), a[2]>>

MaxQ(a, b) == IF Lt(a, b) THEN b ELSE a

\* gml::normalize: v / length(v).  The length is the largest component times
\* the square root, taken to three decimals, of the sum of the squares of the
\* components relative to it.  The code divides the zero vector by zero; the
\* model returns it unchanged, and the inputs reach it only in calls that
\* discard the primitive or read no more than the sign of a component.
Normalize(v) ==
    LET m   == MaxQ(MaxQ(AbsQ(v[1]), AbsQ(v[2])), AbsQ(v[3]))
        w   == [i \in 1..3 |-> Div(v[i], m)]
        len == Mul(m, Q(Isqrt(Milli(w[1]) * Milli(w[1]) + Milli(w[2]) * Milli(w[2])
                              + Milli(w[3]) * Milli(w[3])), 1000))
    IN  IF m[1] = 0 THEN v ELSE [i \in 1..3 |-> Div(v[i], len)]

\* gml::normal(p1, p2, p3): the unit normal of the triangle
Normal(p1, p2, p3) == Normalize(Cross(VSub(p2, p1), VSub(p3, p1)))

\* gml::clamp
Clamp(x, lo, hi) == IF Lt(x, lo) THEN lo ELSE IF Gt(x, hi) THEN hi ELSE x

Row(a, b, c, d) == <<a, b, c, d>>

Identity ==
    << Row(I(1), I(0), I(0), I(0)),
       Row(I(0), I(1), I(0), I(0)),
       Row(I(0), I(0), I(1), I(0)),
       Row(I(0), I(0), I(0), I(1)) >>

Dot4(r, c) ==
    Add(Add(Mul(r[1], c[1]), Mul(r[2], c[2])), Add(Mul(r[3], c[3]), Mul(r[4], c[4])))

Col(m, j) == <<m[1][j], m[2][j], m[3][j], m[4][j]>>

\* the matrix product a * b
MatMul(a, b) == [i \in 1..4 |-> [j \in 1..4 |-> Dot4(a[i], Col(b, j))]]

\* the matrix-vector product m * v
MatVec(m, v) == [i \in 1..4 |-> Dot4(m[i], v)]

\* gml::ortho2D(left, right, bottom, top)
Ortho2D(l, r, b, t) ==
    << Row(Q(2, r - l), I(0), I(0), Q(-(r + l), r - l)),
       Row(I(0), Q(2, t - b), I(0), Q(-(t + b), t - b)),
       Row(I(0), I(0), I(-1), I(0)),
       Row(I(0), I(0), I(0), I(1)) >>

\* gml::perspective(fovy, aspect, zNear, zFar); the angle is given by
\* f = 1 / tan(fovy / 2), a rational number
Perspective(f, aspect, zNear, zFar) ==
    << Row(Div(f, aspect), I(0), I(0), I(0)),
       Row(I(0), f, I(0), I(0)),
       Row(I(0), I(0), Q(zFar + zNear, zNear - zFar), Q(2 * zFar * zNear, zNear - zFar)),
       Row(I(0), I(0), I(-1), I(0)) >>

\* gml::project(p, viewProj, viewportOrigin, viewportSize)
GmlProject(p, m, origin, vsize) ==
    LET in == MatVec(m, <<p[1], p[2], p[3], I(1)>>)
        h  == Q(1, 2)
        nx == Add(Mul(Div(in[1], in[4]), h), h)
        ny == Add(Mul(Div(in[2], in[4]), h), h)
        nz == Add(Mul(Div(in[3], in[4]), h), h)
    IN  << Add(Mul(nx, I(vsize[1])), I(origin[1])),
           Add(Mul(ny, I(vsize[2])), I(origin[2])),
           nz >>

(***************************************************************************)
(* Text.  operator<< writes a double with six significant digits (%g).     *)
(* The text is modelled by the decimal number it denotes: sign, the digits *)
(* without trailing zeros, the power of ten of the last digit, and whether *)
(* the exponent notation is used.                                          *)
(***************************************************************************)
RECURSIVE Pow10(_)
Pow10(k) == IF k = 0 THEN 1 ELSE 10 * Pow10(k - 1)

RECURSIVE Log10Up(_, _)
\* the largest x >= e with 10^x <= a, for a >= 10^e and e >= 0
Log10Up(a, e) == IF Lt(a, I(Pow10(e + 1))) THEN e ELSE Log10Up(a, e + 1)

RECURSIVE Log10Down(_, _)
\* the largest x <= -k with 10^x <= a, for 0 < a < 10^(1-k) and k >= 1
Log10Down(a, k) == IF Lt(a, Q(1, Pow10(k))) THEN Log10Down(a, k + 1) ELSE -k

\* the decimal exponent of a > 0
Log10(a) == IF Lt(a, I(1)) THEN Log10Down(a, 1) ELSE Log10Up(a, 0)

RECURSIVE StripZeros(_, _)
StripZeros(m, k) == IF m % 10 = 0 THEN StripZeros(m \div 10, k + 1) ELSE <<m, k>>

Fmt(a) ==
    IF a[1] = 0 THEN [neg |-> FALSE, mant |-> 0, pow |-> 0, sci |-> FALSE]
    ELSE
      LET v  == <<Abs(a[1]), a[2]>>
          e0 == Log10(v)
          sc(e) == IF 5 - e >= 0 THEN Mul(v, I(Pow10(5 - e))) ELSE Div(v, I(Pow10(e - 5)))
          m0 == RoundDiv(sc(e0)[1], sc(e0)[2])
          e  == IF m0 = 1000000 THEN e0 + 1 ELSE e0
          m  == IF m0 = 1000000 THEN 100000 ELSE m0
          t  == StripZeros(m, e - 5)
      IN  [neg |-> a[1] < 0, mant |-> t[1], pow |-> t[2], sci |-> (e < -4 \/ e >= 6)]

\* static_cast<unsigned>(x) of a double x >= 0: the fraction is dropped
ToUnsigned(a) == IF a[1] >= 0 THEN a[1] \div a[2] ELSE -((-a[1]) \div a[2])

\* fn without the clamp
toColorFnNoClamp(c) == ToUnsigned(Mul(I(255), c))

\* the lambda fn of toColor
toColorFn(c) == ToUnsigned(Mul(I(255), Clamp(c, I(0), I(1))))

\* toColor: the three integers of the text "rgb(R,G,B)"
toColor(c) == <<toColorFn(c[1]), toColorFn(c[2]), toColorFn(c[3])>>

(***************************************************************************)
(* Elements.  A record of the accumulator holds what the code stores (kind,*)
(* the screen-space points p_, the depth key z_, color_) and, for the      *)
(* properties, history the code does not keep: id, the position at which   *)
(* it was submitted; src, the world-space points of the call; wy, the      *)
(* window y of each point before the flip.                                 *)
(***************************************************************************)
VertexElem(p, color) ==
    [kind |-> "vertex", p_ |-> <<p>>, z_ |-> p[3], color_ |-> color]

LineElem(p1, p2, color) ==
    [kind |-> "line", p_ |-> <<p1, p2>>,
     z_ |-> Div(Add(p1[3], p2[3]), I(2)), color_ |-> color]

TriangleElem(p1, p2, p3, color) ==
    [kind |-> "triangle", p_ |-> <<p1, p2, p3>>,
     z_ |-> Div(Add(Add(p1[3], p2[3]), p3[3]), I(3)), color_ |-> color]

\* VertexElem::stream
VertexStream(e) ==
    [tag |-> "circle", pts |-> <<<<Fmt(e.p_[1][1]), Fmt(e.p_[1][2])>>>>,
     r |-> 3, style |-> "fill", rgb |-> toColor(e.color_)]

\* LineElem::stream
LineStream(e) ==
    [tag |-> "line",
     pts |-> << <<Fmt(e.p_[1][1]), Fmt(e.p_[1][2])>>, <<Fmt(e.p_[2][1]), Fmt(e.p_[2][2])>> >>,
     r |-> 0, style |-> "stroke", rgb |-> toColor(e.color_)]

\* TriangleElem::stream
TriangleStream(e) ==
    [tag |-> "polygon",
     pts |-> [i \in 1..3 |-> <<Fmt(e.p_[i][1]), Fmt(e.p_[i][2])>>],
     r |-> 0, style |-> "fill", rgb |-> toColor(e.color_)]

\* the virtual call elem->stream(ss)
Stream(e) ==
    CASE e.kind = "vertex"   -> VertexStream(e)
      [] e.kind = "line"     -> LineStream(e)
      [] e.kind = "triangle" -> TriangleStream(e)

(***************************************************************************)
(* The camera.                                                             *)
(***************************************************************************)
\* project without the flip
projectNoFlip(p) == GmlProject(p, viewProjMatrix_, viewportOrigin_, viewportSize_)

\* SvgWriter::project
project(p) ==
    LET temp == GmlProject(p, viewProjMatrix_, viewportOrigin_, viewportSize_)
    IN  <<temp[1], Sub(I(size_[2]), temp[2]), temp[3]>>

\* the window y of p, before the flip of project
WindowY(p) == GmlProject(p, viewProjMatrix_, viewportOrigin_, viewportSize_)[2]

\* lightDir_ after the constructor has normalised it
lightDir_ == Normalize(Vec3(1, 2, 3))

\* SvgWriter::normalToColor
normalToColor(normal) ==
    LET d0 == Dot3(normal, lightDir_)
        d1 == Clamp(d0, I(0), I(1))
        d  == Add(Q(1, 10), Mul(Q(8, 10), d1))
    IN  <<d, d, d>>

\* the factors in the wrong order
ViewProjReversed(proj, view) == MatMul(view, proj)

\* viewProjMatrix_ = projMatrix_ * viewMatrix_
ViewProj(proj, view) == MatMul(proj, view)

\* History, not state of the code: the last call.  op is its name ("camera" for
\* the five camera mutators), rec whether it appended a record, args the points
\* of a submission that appended nothing (those of one that appended are the
\* src of its record), ret the text returned by str().
Call(op, rec, args, ret) == [op |-> op, rec |-> rec, args |-> args, ret |-> ret]

\* the constructor SvgWriter(width, height)
Construct(width, height) ==
    /\ size_ = <<width, height>>
    /\ viewMatrix_ = Identity
    /\ projMatrix_ = Identity
    /\ viewProjMatrix_ = Identity
    /\ viewportOrigin_ = <<0, 0>>
    /\ viewportSize_ = <<width, height>>
    /\ cullface_ = TRUE
    /\ elems_ = <<>>
    /\ last = Call("SvgWriter", FALSE, <<>>, <<>>)

\* modelView starting a new picture
modelViewResets(matrix) ==
    /\ viewMatrix_' = matrix
    /\ viewProjMatrix_' = MatMul(projMatrix_, viewMatrix_')
    /\ elems_' = <<>>
    /\ last' = Call("camera", FALSE, <<>>, <<>>)
    /\ UNCHANGED <<size_, projMatrix_, viewportOrigin_, viewportSize_, cullface_>>

modelView(matrix) ==
    /\ viewMatrix_' = matrix
    /\ viewProjMatrix_' = ViewProj(projMatrix_, viewMatrix_')
    /\ last' = Call("camera", FALSE, <<>>, <<>>)
    /\ UNCHANGED <<size_, projMatrix_, viewportOrigin_, viewportSize_, cullface_, elems_>>

perspective(f, aspect, zNear, zFar) ==
    /\ projMatrix_' = Perspective(f, aspect, zNear, zFar)
    /\ viewProjMatrix_' = ViewProj(projMatrix_', viewMatrix_)
    /\ last' = Call("camera", FALSE, <<>>, <<>>)
    /\ UNCHANGED <<size_, viewMatrix_, viewportOrigin_, viewportSize_, cullface_, elems_>>

ortho(left, right, bottom, top) ==
    /\ projMatrix_' = Ortho2D(left, right, bottom, top)
    /\ viewProjMatrix_' = ViewProj(projMatrix_', viewMatrix_)
    /\ last' = Call("camera", FALSE, <<>>, <<>>)
    /\ UNCHANGED <<size_, viewMatrix_, viewportOrigin_, viewportSize_, cullface_, elems_>>

viewport(x, y, width, height) ==
    /\ viewportOrigin_' = <<x, y>>
    /\ viewportSize_' = <<width, height>>
    /\ last' = Call("camera", FALSE, <<>>, <<>>)
    /\ UNCHANGED <<size_, viewMatrix_, projMatrix_, viewProjMatrix_, cullface_, elems_>>

cullface(on) ==
    /\ cullface_' = on
    /\ last' = Call("camera", FALSE, <<>>, <<>>)
    /\ UNCHANGED <<size_, viewMatrix_, projMatrix_, viewProjMatrix_,
                   viewportOrigin_, viewportSize_, elems_>>

(***************************************************************************)
(* Submission.                                                             *)
(***************************************************************************)
\* elems_.push_back(elem), with the history of the call
PushBack(elem, src) ==
    Append(elems_, elem @@ [id  |-> Len(elems_) + 1,
                            src |-> src,
                            wy  |-> [i \in 1..Len(src) |-> WindowY(src[i])]])

\* the accumulator after writePoint(p, color)
AfterWritePoint(p, color) == PushBack(VertexElem(project(p), color), <<p>>)

writePoint(p, color) ==
    /\ elems_' = AfterWritePoint(p, color)
    /\ last' = Call("writePoint", TRUE, <<>>, <<>>)
    /\ UNCHANGED camera

\* the early return of writeLine
LineRejected(p1, p2) == p1 = p2

\* the accumulator after writeLine(p1, p2, color)
AfterWriteLine(p1, p2, color) ==
    IF LineRejected(p1, p2) THEN elems_
    ELSE PushBack(LineElem(project(p1), project(p2), color), <<p1, p2>>)

writeLine(p1, p2, color) ==
    /\ elems_' = AfterWriteLine(p1, p2, color)
    /\ last' = IF LineRejected(p1, p2)
               THEN Call("writeLine", FALSE, <<p1, p2>>, <<>>)
               ELSE Call("writeLine", TRUE, <<>>, <<>>)
    /\ UNCHANGED camera

\* the test without its third comparison
TriangleRejectedAdjacent(p1, p2, p3) == p1 = p2 \/ p2 = p3

\* the first early return of writeTriangle
TriangleRejected(p1, p2, p3) == p1 = p2 \/ p2 = p3 \/ p1 = p3

\* the test with >= for >
CulledNonStrict(on, pp1, pp2, pp3) == on /\ ~Lt(Normal(pp1, pp2, pp3)[3], Zero)

\* the test without the flag
CulledAlways(on, pp1, pp2, pp3) == Gt(Normal(pp1, pp2, pp3)[3], Zero)

\* the second early return of writeTriangle
Culled(on, pp1, pp2, pp3) == on /\ Gt(Normal(pp1, pp2, pp3)[3], Zero)

\* writeTriangle(p1, p2, p3, color) returns before the push_back
TriangleDiscarded(p1, p2, p3) ==
    \/ TriangleRejected(p1, p2, p3)
    \/ Culled(cullface_, project(p1), project(p2), project(p3))

\* the accumulator after writeTriangle(p1, p2, p3, color)
AfterWriteTriangle(p1, p2, p3, color) ==
    IF TriangleDiscarded(p1, p2, p3) THEN elems_
    ELSE PushBack(TriangleElem(project(p1), project(p2), project(p3), color),
                  <<p1, p2, p3>>)

writeTriangle(p1, p2, p3, color) ==
    /\ elems_' = AfterWriteTriangle(p1, p2, p3, color)
    /\ last' = IF TriangleDiscarded(p1, p2, p3)
               THEN Call("writeTriangle", FALSE, <<p1, p2, p3>>, <<>>)
               ELSE Call("writeTriangle", TRUE, <<>>, <<>>)
    /\ UNCHANGED camera

\* the colour the overload without a colour hands to writeTriangle
Shade(p1, p2, p3) == normalToColor(Normal(p1, p2, p3))

\* writeTriangle(p1, p2, p3), the overload that shades
writeTriangleShaded(p1, p2, p3) == writeTriangle(p1, p2, p3, Shade(p1, p2, p3))

(***************************************************************************)
(* str().                                                                  *)
(***************************************************************************)
\* >= for >
CompNotLess(e1, e2) == ~Lt(e1.z_, e2.z_)

\* < for >
CompAscending(e1, e2) == Lt(e1.z_, e2.z_)

\* the comparison handed to std::stable_sort
Comp(e1, e2) == Gt(e1.z_, e2.z_)

RECURSIVE Insert(_, _)
\* x moved left past every element it goes before
Insert(t, x) ==
    IF t = <<>> THEN <<x>>
    ELSE IF Comp(x, t[Len(t)])
         THEN Append(Insert(SubSeq(t, 1, Len(t) - 1), x), t[Len(t)])
         ELSE Append(t, x)

RECURSIVE StableSort(_)
\* std::stable_sort(elems_.begin(), elems_.end(), Comp), as an insertion sort
StableSort(s) ==
    IF s = <<>> THEN <<>>
    ELSE Insert(StableSort(SubSeq(s, 1, Len(s) - 1)), s[Len(s)])

\* the text str() returns: the svg element, the rect, the elements, </svg>
Document(size, elems) ==
    [svg  |-> [width |-> size[1], height |-> size[2]],
     rect |-> [width |-> size[1], height |-> size[2], style |-> "fill:white"],
     body |-> [i \in 1..Len(elems) |-> Stream(elems[i])]]

\* the accumulator after str()
AfterStr == StableSort(elems_)

\* the records written before they are sorted
StrReturnUnsorted == Document(size_, elems_)

\* the text str() returns in this state
StrReturn == Document(size_, AfterStr)

str ==
    /\ elems_' = AfterStr
    /\ last' = Call("str", FALSE, <<>>, StrReturn)
    /\ UNCHANGED camera

(***************************************************************************)
(* Inputs.  Three specifications run the same operations on different      *)
(* inputs.  Spec has every operation and the most cameras; its points lie  *)
(* off the eye plane of the perspective camera.  SpecSort has few cameras  *)
(* and a longer accumulator, for the order of str().  SpecScene is the     *)
(* scene of the end-to-end scenarios: a 100 x 100 canvas, orthographic     *)
(* cameras, points in the plane z = 0.                                     *)
(***************************************************************************)
\* the half turn about the y axis: the scene seen from behind
RotY180 ==
    << Row(I(-1), I(0), I(0), I(0)),
       Row(I(0), I(1), I(0), I(0)),
       Row(I(0), I(0), I(-1), I(0)),
       Row(I(0), I(0), I(0), I(1)) >>

Views == {Identity, RotY180}

\* left, right, bottom, top
Orthos == {<<0, 100, 0, 100>>}

\* 1 / tan(fovy / 2), aspect, zNear, zFar
Perspectives == {<<I(1), I(1), 1, 3>>}

\* x, y, width, height
Viewports == {<<0, 0, 100, 100>>, <<10, 20, 50, 40>>}

Red   == <<I(1), I(0), I(0)>>
Green == <<I(0), I(1), I(0)>>
Blue  == <<I(0), I(0), I(1)>>
\* components below 0, above 1 and between two steps of 1/255
Wild  == <<Q(-1, 2), Q(3, 2), Q(1, 3)>>

PA == Vec3(0, 0, -1)
PB == Vec3(100, 0, -1)
PC == Vec3(0, 100, -1)
PD == Vec3(50, 50, -2)

Points == {PA}

Lines == {<<PA, PD>>, <<PD, PD>>}

\* a triangle, and the three ways two of its corners can be equal
Triangles == {<<PA, PB, PC>>, <<PA, PA, PB>>, <<PA, PB, PA>>, <<PB, PA, PA>>}

ShadedTriangles == {<<PA, PC, PB>>, <<PB, PC, PC>>}

MaxElems == 1

Init == Construct(100, 100)

Room == Len(elems_) < MaxElems

Next ==
    \/ \E m \in Views : modelView(m)
    \/ \E a \in Perspectives : perspective(a[1], a[2], a[3], a[4])
    \/ \E a \in Orthos : ortho(a[1], a[2], a[3], a[4])
    \/ \E a \in Viewports : viewport(a[1], a[2], a[3], a[4])
    \/ \E on \in BOOLEAN : cullface(on)
    \/ \E p \in Points : Room /\ writePoint(p, Red)
    \/ \E l \in Lines : Room /\ writeLine(l[1], l[2], Green)
    \/ \E t \in Triangles : Room /\ writeTriangle(t[1], t[2], t[3], Blue)
    \/ \E t \in ShadedTriangles : Room /\ writeTriangleShaded(t[1], t[2], t[3])
    \/ str

Spec == Init /\ [][Next]_vars

(***************************************************************************)
(* SpecSort: depth keys that tie and depth keys that differ.               *)
(***************************************************************************)
SortPoints == {PA, PB, PD}

SortLines == {<<PA, PD>>}

SortTriangles == {<<PA, PB, PC>>}

MaxSorted == 3

RoomSort == Len(elems_) < MaxSorted

NextSort ==
    \/ \E m \in Views : modelView(m)
    \/ \E p \in SortPoints : RoomSort /\ writePoint(p, Red)
    \/ \E l \in SortLines : RoomSort /\ writeLine(l[1], l[2], Green)
    \/ \E t \in SortTriangles : RoomSort /\ writeTriangle(t[1], t[2], t[3], Blue)
    \/ str

SpecSort == Init /\ [][NextSort]_vars

(***************************************************************************)
(* SpecScene: the end-to-end scenarios.                                    *)
(***************************************************************************)
S00 == Vec3(0, 0, 0)
S10 == Vec3(10, 0, 0)
S55 == Vec3(50, 50, 0)
SX  == Vec3(100, 0, 0)
SY  == Vec3(0, 100, 0)
SXY == Vec3(100, 100, 0)
S111 == Vec3(1, 1, 1)

\* a point and its colour
ScenePoints == {<<S55, Red>>, <<S10, Green>>}

SceneLines == {<<S111, S111>>, <<S00, SXY>>}

\* the front face, its reverse, three corners on a line, two equal corners
SceneTriangles == {<<S00, SX, SY>>, <<S00, SY, SX>>, <<S00, S55, SXY>>, <<S00, SXY, S55>>,
                   <<S00, S00, SX>>}

SceneViewports == {<<0, 0, 100, 100>>, <<0, 0, 50, 50>>}

NextScene ==
    \/ \E m \in Views : modelView(m)
    \/ \E a \in Orthos : ortho(a[1], a[2], a[3], a[4])
    \/ \E a \in SceneViewports : viewport(a[1], a[2], a[3], a[4])
    \/ \E on \in BOOLEAN : cullface(on)
    \/ \E p \in ScenePoints : Room /\ writePoint(p[1], p[2])
    \/ \E l \in SceneLines : Room /\ writeLine(l[1], l[2], Wild)
    \/ \E t \in SceneTriangles : Room /\ writeTriangle(t[1], t[2], t[3], Blue)
    \/ str

SpecScene == Init /\ [][NextScene]_vars

(***************************************************************************)
(* Properties.                                                             *)
(***************************************************************************)
Distinct(t) == t[1] # t[2] /\ t[2] # t[3] /\ t[1] # t[3]

\* t with two corners swapped
Swaps(t) == {<<t[2], t[1], t[3]>>, <<t[3], t[2], t[1]>>, <<t[1], t[3], t[2]>>}

\* the z component of (p2' - p1') x (p3' - p1') for screen-space corners
CrossZ(pp) == Cross(VSub(pp[2], pp[1]), VSub(pp[3], pp[1]))[3]

\* the same for the corners of t projected by the camera of this state
ScreenNz(t) == CrossZ(<<project(t[1]), project(t[2]), project(t[3])>>)

\* writeTriangle(t, color), called in this state, appends a record
Appends(t) == Len(AfterWriteTriangle(t[1], t[2], t[3], Blue)) = Len(elems_) + 1

\* s and t hold the same records, each as often
IsPerm(s, t) ==
    /\ Len(s) = Len(t)
    /\ \A i \in 1..Len(s) :
          Cardinality({j \in 1..Len(s) : s[j] = s[i]})
            = Cardinality({j \in 1..Len(t) : t[j] = s[i]})

\* elems_' is elems_ with one record appended
OneAppended == Len(elems_') = Len(elems_) + 1 /\ SubSeq(elems_', 1, Len(elems_)) = elems_

Submissions == {"writePoint", "writeLine", "writeTriangle"}

\* the document of the last call, a str(), lists the records in accumulator order
Emitted ==
    /\ last.op = "str"
    /\ Len(last.ret.body) = Len(elems_)
    /\ \A i \in 1..Len(elems_) : last.ret.body[i] = Stream(elems_[i])

\* the triangle of the last call, a writeTriangle
LastTriangle == IF last.rec THEN elems_[Len(elems_)].src ELSE last.args

\* C1 as stated.  With culling on, of a triangle with distinct corners and the
\* same triangle with two corners swapped, submitted one after the other under
\* the same camera and viewport, exactly one is appended.
C1_ExactlyOneOfPair ==
    (cullface_ /\ last.op = "writeTriangle" /\ Distinct(LastTriangle)) =>
        \A r \in Swaps(LastTriangle) : last.rec # Appends(r)

\* C1, amended.  With culling on, of a triangle and the same triangle with two
\* corners swapped, submitted one after the other under the same camera and
\* viewport: exactly one is appended when the corners are distinct and their
\* projections are not on a line (normal z # 0); both are appended when the
\* corners are distinct and their projections are on a line (normal z = 0);
\* none is when two corners are equal.
C1_ExactlyOneUnlessCollinear ==
    (cullface_ /\ last.op = "writeTriangle") =>
        \A r \in Swaps(LastTriangle) :
            IF ~Distinct(LastTriangle) THEN ~last.rec /\ ~Appends(r)
            ELSE IF ScreenNz(LastTriangle)[1] # 0 THEN last.rec # Appends(r)
            ELSE last.rec /\ Appends(r)

\* with culling on a triangle was discarded for its winding, and each of its
\* reverses, submitted now, is appended
C1_Witness ==
    /\ cullface_
    /\ last.op = "writeTriangle"
    /\ ~last.rec
    /\ Distinct(last.args)
    /\ ScreenNz(last.args)[1] # 0
    /\ viewMatrix_ # Identity
    /\ \A r \in Swaps(last.args) : Appends(r)

\* C2.  In the document of str(), records with equal depth keys appear in the
\* order in which they were submitted, whatever str() calls and submissions
\* came before.
C2_StableOrder ==
    last.op = "str" =>
        /\ Emitted
        /\ \A i, j \in 1..Len(elems_) :
              (i < j /\ elems_[i].z_ = elems_[j].z_) => elems_[i].id < elems_[j].id

\* two records tie behind a record that was submitted after both
C2_Witness ==
    /\ Emitted
    /\ \E i, j, k \in 1..Len(elems_) :
          /\ k < i /\ i < j
          /\ elems_[i].z_ = elems_[j].z_
          /\ elems_[k].id > elems_[j].id

\* the mean of the z of the screen-space points of a record
MeanZ(e) ==
    CASE e.kind = "vertex"   -> e.p_[1][3]
      [] e.kind = "line"     -> Div(Add(e.p_[1][3], e.p_[2][3]), I(2))
      [] e.kind = "triangle" -> Div(Add(e.p_[1][3], Add(e.p_[2][3], e.p_[3][3])), I(3))

\* C3.  The depth key of a record is the mean z of its points, and the
\* document of str() lists the records by depth key, largest first.
C3_PaintersOrder ==
    /\ \A i \in 1..Len(elems_) : elems_[i].z_ = MeanZ(elems_[i])
    /\ last.op = "str" =>
          /\ Emitted
          /\ \A i, j \in 1..Len(elems_) :
                i < j => ~Lt(elems_[i].z_, elems_[j].z_)

\* a deeper record is emitted before a record submitted before it
C3_Witness ==
    /\ Emitted
    /\ \E i, j \in 1..Len(elems_) :
          /\ i < j
          /\ Gt(elems_[i].z_, elems_[j].z_)
          /\ elems_[i].id > elems_[j].id
          /\ elems_[i].kind = "triangle"

\* C4.  After a str(), another str() with no call in between returns the same
\* document.
C4_IdempotentRender ==
    last.op = "str" => StrReturn = last.ret

\* the first str() reordered an accumulator that holds a tie
C4_Witness ==
    /\ Emitted
    /\ \E i, j \in 1..Len(elems_) : i < j /\ elems_[i].id > elems_[j].id
    /\ \E i, j \in 1..Len(elems_) : i < j /\ elems_[i].z_ = elems_[j].z_

\* C5.  viewProjMatrix_ is projMatrix_ * viewMatrix_ in every state.
C5_ViewProjCache == viewProjMatrix_ = MatMul(projMatrix_, viewMatrix_)

\* both factors were set, do not commute, and records and a str() followed
C5_Witness ==
    /\ viewMatrix_ # Identity
    /\ projMatrix_ # Identity
    /\ MatMul(projMatrix_, viewMatrix_) # MatMul(viewMatrix_, projMatrix_)
    /\ elems_ # <<>>
    /\ last.op = "str"

\* C6.  No line or triangle of the accumulator was submitted with two equal
\* points, and in every state writeLine(p, p, c) and writeTriangle with two
\* equal corners, with or without a colour, leave the accumulator as it is.
C6_DegenerateRejected ==
    /\ \A i \in 1..Len(elems_) :
          /\ elems_[i].kind = "line" => elems_[i].src[1] # elems_[i].src[2]
          /\ elems_[i].kind = "triangle" => Distinct(elems_[i].src)
    /\ \A l \in Lines :
          l[1] = l[2] => AfterWriteLine(l[1], l[2], Green) = elems_
    /\ \A t \in Triangles \cup ShadedTriangles :
          ~Distinct(t) =>
              /\ AfterWriteTriangle(t[1], t[2], t[3], Blue) = elems_
              /\ AfterWriteTriangle(t[1], t[2], t[3], Shade(t[1], t[2], t[3])) = elems_

\* a triangle whose first and last corners are equal was submitted and refused,
\* under a camera that is not the initial one
C6_Witness ==
    /\ last.op = "writeTriangle"
    /\ ~last.rec
    /\ last.args[1] = last.args[3]
    /\ viewProjMatrix_ # Identity

\* C7.  The y of every recorded point is the canvas height minus its window y;
\* str() writes that y as it is; and on a 100 x 100 canvas with
\* ortho(0, 100, 0, 100), the identity model-view and the viewport of the
\* constructor, writePoint((x, y, 0), c) records the point (x, 100 - y), which
\* is written as cx = x, cy = 100 - y.
C7_FlipOnce ==
    /\ \A i \in 1..Len(elems_) : \A k \in 1..Len(elems_[i].p_) :
          elems_[i].p_[k][2] = Sub(I(size_[2]), elems_[i].wy[k])
    /\ last.op = "str" =>
          /\ Len(last.ret.body) = Len(elems_)
          /\ \A i \in 1..Len(elems_) : \A k \in 1..Len(elems_[i].p_) :
                last.ret.body[i].pts[k][2] = Fmt(Sub(I(size_[2]), elems_[i].wy[k]))
    /\ ( /\ size_ = <<100, 100>>
         /\ projMatrix_ = Ortho2D(0, 100, 0, 100)
         /\ viewMatrix_ = Identity
         /\ viewportOrigin_ = <<0, 0>> /\ viewportSize_ = <<100, 100>> ) =>
          \A p \in ScenePoints :
              LET new == AfterWritePoint(p[1], p[2])
                  q   == new[Len(new)].p_[1]
              IN  /\ q[1] = p[1][1] /\ q[2] = Sub(I(100), p[1][2])
                  /\ Stream(new[Len(new)]).pts[1]
                        = <<Fmt(p[1][1]), Fmt(Sub(I(100), p[1][2]))>>

\* the point (10, 0, 0) was recorded and str() wrote it as cx = 10, cy = 100
C7_Witness ==
    /\ last.op = "str"
    /\ \E i \in 1..Len(elems_) :
          /\ elems_[i].kind = "vertex"
          /\ elems_[i].src = <<S10>>
          /\ last.ret.body[i].tag = "circle"
          /\ last.ret.body[i].pts[1] = <<Fmt(I(10)), Fmt(I(100))>>

\* floor(255 * clamp(c, 0, 1))
Byte(c) ==
    LET k == IF c[1] < 0 THEN Zero ELSE IF c[1] > c[2] THEN I(1) ELSE c
    IN  Floor(Mul(I(255), k))

\* C8.  Each integer of an rgb(R,G,B) written by str() is
\* floor(255 * clamp(c, 0, 1)) of the stored component c, so it lies in 0..255;
\* the stored colour is the submitted one, not clamped.
C8_ColorClamped ==
    /\ \A i \in 1..Len(elems_) :
          /\ elems_[i].kind = "line" => elems_[i].color_ = Wild
          /\ elems_[i].kind = "triangle" => elems_[i].color_ = Blue
          /\ elems_[i].kind = "vertex" => elems_[i].color_ \in {Red, Green}
    /\ last.op = "str" =>
          /\ Len(last.ret.body) = Len(elems_)
          /\ \A i \in 1..Len(elems_) : \A k \in 1..3 :
                /\ last.ret.body[i].rgb[k] = Byte(elems_[i].color_[k])
                /\ last.ret.body[i].rgb[k] \in 0..255

\* a colour with components -1/2, 3/2 and 1/3 was written as rgb(0,255,85)
C8_Witness ==
    /\ last.op = "str"
    /\ \E i \in 1..Len(elems_) :
          /\ elems_[i].color_ = Wild
          /\ last.ret.body[i].rgb = <<0, 255, 85>>

\* C9.  With culling off, writeTriangle with distinct corners appends one
\* triangle record holding the projections of the corners in the order given,
\* whatever the winding.  cullface(on) sets the flag to on and changes no
\* record; the flag is on after construction.
C9_CullingOff ==
    /\ ~cullface_ =>
          \A t \in {x \in SceneTriangles : Distinct(x)} :
              LET new == AfterWriteTriangle(t[1], t[2], t[3], Blue)
              IN  /\ Len(new) = Len(elems_) + 1
                  /\ SubSeq(new, 1, Len(elems_)) = elems_
                  /\ new[Len(new)].kind = "triangle"
                  /\ new[Len(new)].src = t
                  /\ new[Len(new)].p_ = <<project(t[1]), project(t[2]), project(t[3])>>
    /\ \A on \in BOOLEAN :
          ~ENABLED (cullface(on) /\ (cullface_' # on \/ elems_' # elems_))
    /\ last.op = "SvgWriter" => cullface_

\* with culling off, a triangle that faces away is in the accumulator
C9_Witness ==
    /\ ~cullface_
    /\ \E i \in 1..Len(elems_) :
          /\ elems_[i].kind = "triangle"
          /\ Gt(CrossZ(elems_[i].p_), Zero)

C10_Step ==
    /\ last'.op = "camera" => elems_' = elems_
    /\ last'.op \in Submissions =>
          /\ camera' = camera
          /\ IF last'.rec THEN OneAppended ELSE elems_' = elems_
    /\ last'.op = "str" => camera' = camera /\ IsPerm(elems_, elems_')
    /\ camera' # camera => last'.op = "camera"
    /\ elems_' # elems_ => last'.op \in Submissions \cup {"str"}

====
